---- MODULE Spec2Model ----
(***************************************************************************)
(* StockTracker: the transaction ledger and the derived holdings           *)
(* (utils/data_persistence.py, utils/database.py), the portfolio           *)
(* valuation, metrics and breakdown (utils/portfolio.py).                  *)
(*                                                                         *)
(* Money and quantities are exact rationals <<numerator, denominator>>     *)
(* where the code divides; market capitalisations are in millions of USD.  *)
(***************************************************************************)
EXTENDS Integers, Sequences, FiniteSets, TLC

VARIABLES
    USE_DATABASE,        \* data_persistence.USE_DATABASE
    store_transactions,  \* the persisted ledger (transactions table / transactions.csv)
    store_portfolio,     \* the persisted holdings (portfolio table / portfolio.json)
    ss_transactions,     \* st.session_state.transactions
    ss_portfolio,        \* st.session_state.portfolio
    clock,               \* number of add_transaction calls so far (datetime.now())
    faults,              \* number of store operations that may still fail
    last,                \* the last call: its arguments, store outcomes and return value
    market,              \* the quote/info source as seen by one computation
    result,              \* the value returned by the last pure computation
    ss_trading_rules,    \* st.session_state.trading_rules
    store_rules,         \* the persisted rules (trading_rules table / trading_rules.json)
    alerts               \* the alerts collected by the last run of the rules page

vars == << USE_DATABASE, store_transactions, store_portfolio, ss_transactions,
           ss_portfolio, clock, faults, last, market, result,
           ss_trading_rules, store_rules, alerts >>

----------------------------------------------------------------------------
(* Bounds *)

MaxTx == 3       \* add_transaction calls in one behaviour
MaxFaults == 1   \* failing store operations in one behaviour of SpecFaults
MaxLedger == 3   \* transactions in a ledger handed to calculate_portfolio_metrics

Symbols == {"A", "B"}     \* the pages upper-case the symbol they pass
Types == {"buy", "sell"}
Quantities == {4, 10}
Prices == {100, 120}
QuotePrices == {90, 130}

----------------------------------------------------------------------------
(* Helpers *)

upper(symbol) ==
    CASE symbol = "a" -> "A"
      [] symbol = "b" -> "B"
      [] OTHER -> symbol

EmptyPortfolio == [s \in {} |-> 0]

Without(portfolio, symbol) ==
    [s \in DOMAIN portfolio \ {symbol} |-> portfolio[s]]

Reverse(seq) == [i \in 1..Len(seq) |-> seq[Len(seq) + 1 - i]]

NoCall == [op |-> "none"]

\* no rule in the session, none persisted, no alert shown
NoRules == ss_trading_rules = << >> /\ store_rules = << >> /\ alerts = << >>

----------------------------------------------------------------------------
(* Exact arithmetic: a number is a fraction <<n, d>> in lowest terms, d > 0. *)
(* Division by zero yields the marker ZeroDivision, which absorbs.           *)

ZeroDivision == << 0, 0 >>

Abs(x) == IF x < 0 THEN -x ELSE x

RECURSIVE GCD(_, _)
GCD(a, b) == IF b = 0 THEN a ELSE GCD(b, a % b)

Frac(n, d) ==
    IF d = 0 THEN ZeroDivision
    ELSE LET g == GCD(Abs(n), Abs(d))
             s == IF d < 0 THEN -1 ELSE 1
         IN  << (s * n) \div g, (s * d) \div g >>

Num(k) == << k, 1 >>

RAdd(x, y) ==
    IF x = ZeroDivision \/ y = ZeroDivision THEN ZeroDivision
    ELSE Frac(x[1] * y[2] + y[1] * x[2], x[2] * y[2])

RSub(x, y) ==
    IF x = ZeroDivision \/ y = ZeroDivision THEN ZeroDivision
    ELSE Frac(x[1] * y[2] - y[1] * x[2], x[2] * y[2])

RMul(x, y) ==
    IF x = ZeroDivision \/ y = ZeroDivision THEN ZeroDivision
    ELSE Frac(x[1] * y[1], x[2] * y[2])

RDiv(x, y) ==
    IF x = ZeroDivision \/ y = ZeroDivision THEN ZeroDivision
    ELSE Frac(x[1] * y[2], x[2] * y[1])

RPositive(x) == x # ZeroDivision /\ x[1] > 0

\* the sum of f[s] over the keys s of a dict of numbers
RECURSIVE SumOver(_, _)
SumOver(f, keys) ==
    IF keys = {} THEN Num(0)
    ELSE LET k == CHOOSE k \in keys : TRUE
         IN  RAdd(f[k], SumOver(f, keys \ {k}))

\* dict.get(key, default)
Get(dict, key, default) == IF key \in DOMAIN dict THEN dict[key] ELSE default

----------------------------------------------------------------------------
(* The holdings update of add_transaction / add_transaction_to_db *)

\* a position sold down to exactly 0 is kept
update_portfolio_keeping_zero(portfolio, symbol, transaction_type, quantity) ==
    IF transaction_type = "buy"
    THEN IF symbol \in DOMAIN portfolio
         THEN [portfolio EXCEPT ![symbol] = @ + quantity]
         ELSE portfolio @@ (symbol :> quantity)
    ELSE IF transaction_type = "sell"
    THEN IF symbol \in DOMAIN portfolio
         THEN IF portfolio[symbol] - quantity < 0
              THEN Without(portfolio, symbol)
              ELSE [portfolio EXCEPT ![symbol] = @ - quantity]
         ELSE portfolio
    ELSE portfolio

update_portfolio(portfolio, symbol, transaction_type, quantity) ==
    IF transaction_type = "buy"
    THEN IF symbol \in DOMAIN portfolio
         THEN [portfolio EXCEPT ![symbol] = @ + quantity]
         ELSE portfolio @@ (symbol :> quantity)
    ELSE IF transaction_type = "sell"
    THEN IF symbol \in DOMAIN portfolio
         THEN IF portfolio[symbol] - quantity <= 0
              THEN Without(portfolio, symbol)
              ELSE [portfolio EXCEPT ![symbol] = @ - quantity]
         ELSE portfolio
    ELSE portfolio

Transaction(symbol, transaction_type, quantity, price, date) ==
    [ symbol |-> upper(symbol), type |-> transaction_type, quantity |-> quantity,
      price |-> price, total |-> quantity * price, date |-> date ]

load_portfolio(ok) == IF ok THEN store_portfolio ELSE EmptyPortfolio

\* database: ORDER BY date DESC; file: the rows of the CSV in file order
load_transactions_of(stored, ok) ==
    IF ~ok THEN << >>
    ELSE IF USE_DATABASE THEN Reverse(stored) ELSE stored

\* the number of failed store operations among the outcomes of one call
Failed(outcomes) == Cardinality({i \in DOMAIN outcomes : ~outcomes[i]})

----------------------------------------------------------------------------
(* add_transaction, database mode.  Outcomes of the store operations:       *)
(* commit of the new row, read of the holdings, save of the holdings, the   *)
(* two reloads of the session.  An operation that is not reached, or a read *)
(* of an empty store, has no failing outcome.                               *)

add_transaction_to_db(symbol, transaction_type, quantity, price, commit_ok, load_ok, save_ok, reload_tx_ok, reload_pf_ok) ==
    LET transaction == Transaction(symbol, transaction_type, quantity, price, clock + 1)
        portfolio == update_portfolio(load_portfolio(load_ok), symbol, transaction_type, quantity)
        new_transactions == Append(store_transactions, transaction)
        new_portfolio == IF save_ok THEN portfolio ELSE store_portfolio
        call == [ op |-> "add_transaction", symbol |-> symbol, type |-> transaction_type,
                  quantity |-> quantity, price |-> price,
                  read_failed |-> commit_ok /\ ~load_ok,
                  write_failed |-> ~commit_ok \/ ~save_ok,
                  before_transactions |-> store_transactions,
                  before_portfolio |-> store_portfolio,
                  ret |-> commit_ok ]
    IN  /\ USE_DATABASE
        /\ last' = call
        /\ IF commit_ok
           THEN /\ store_transactions' = new_transactions
                /\ store_portfolio' = new_portfolio
                /\ ss_transactions' = load_transactions_of(new_transactions, reload_tx_ok)
                /\ ss_portfolio' = IF reload_pf_ok THEN new_portfolio ELSE EmptyPortfolio
           ELSE UNCHANGED << store_transactions, store_portfolio, ss_transactions, ss_portfolio >>

(* add_transaction, file fallback.  Outcomes: read of the CSV, write of the *)
(* CSV, read of the holdings, write of the holdings.                        *)

add_transaction_file(symbol, transaction_type, quantity, price, load_tx_ok, save_tx_ok, load_ok, save_ok) ==
    LET transaction == Transaction(symbol, transaction_type, quantity, price, clock + 1)
        transactions == Append(load_transactions_of(store_transactions, load_tx_ok), transaction)
        portfolio == update_portfolio(load_portfolio(load_ok), symbol, transaction_type, quantity)
        call == [ op |-> "add_transaction", symbol |-> symbol, type |-> transaction_type,
                  quantity |-> quantity, price |-> price,
                  read_failed |-> ~load_tx_ok \/ (save_tx_ok /\ ~load_ok),
                  write_failed |-> ~save_tx_ok \/ ~save_ok,
                  before_transactions |-> store_transactions,
                  before_portfolio |-> store_portfolio,
                  ret |-> save_tx_ok ]
    IN  /\ ~USE_DATABASE
        /\ last' = call
        /\ IF save_tx_ok
           THEN /\ store_transactions' = transactions
                /\ ss_transactions' = transactions
                /\ store_portfolio' = IF save_ok THEN portfolio ELSE store_portfolio
                /\ ss_portfolio' = portfolio
           ELSE UNCHANGED << store_transactions, store_portfolio, ss_transactions, ss_portfolio >>

add_transaction ==
    /\ clock < MaxTx
    /\ clock' = clock + 1
    /\ \E symbol \in Symbols, transaction_type \in Types, quantity \in Quantities, price \in Prices :
       \E outcomes \in [1..5 -> BOOLEAN] :
          /\ Failed(outcomes) <= faults
          /\ faults' = faults - Failed(outcomes)
          /\ \/ \* commit, read of the holdings, save of the holdings, two reloads
                /\ ~outcomes[1] => \A i \in 2..5 : outcomes[i]
                /\ store_portfolio = EmptyPortfolio => outcomes[2]
                /\ add_transaction_to_db(symbol, transaction_type, quantity, price,
                     outcomes[1], outcomes[2], outcomes[3], outcomes[4], outcomes[5])
             \/ \* read of the CSV, write of the CSV, read of the holdings, save of the holdings
                /\ outcomes[5]
                /\ ~outcomes[2] => outcomes[3] /\ outcomes[4]
                /\ store_transactions = << >> => outcomes[1]
                /\ store_portfolio = EmptyPortfolio => outcomes[3]
                /\ add_transaction_file(symbol, transaction_type, quantity, price,
                     outcomes[1], outcomes[2], outcomes[3], outcomes[4])
    /\ UNCHANGED << USE_DATABASE, market, result, ss_trading_rules, store_rules, alerts >>

----------------------------------------------------------------------------
(* The replay of the ledger (the portfolio chart of the home page): the     *)
(* signed accumulator per symbol, zero and negative positions removed       *)
(* after the whole replay.                                                  *)

RECURSIVE replay(_, _)
replay(transactions, acc) ==
    IF transactions = << >> THEN acc
    ELSE LET transaction == Head(transactions)
             symbol == transaction.symbol
             held == IF symbol \in DOMAIN acc THEN acc[symbol] ELSE 0
             now == IF transaction.type = "buy"
                    THEN held + transaction.quantity
                    ELSE held - transaction.quantity
         IN  replay(Tail(transactions),
                    [s \in DOMAIN acc \cup {symbol} |-> IF s = symbol THEN now ELSE acc[s]])

current_portfolio(transactions) ==
    LET acc == replay(transactions, EmptyPortfolio)
    IN  [s \in {k \in DOMAIN acc : acc[k] > 0} |-> acc[s]]

(* The holdings as add_transaction derives them: one update per recorded    *)
(* transaction, in the order given.                                         *)

RECURSIVE derive_holdings(_, _)
derive_holdings(transactions, portfolio) ==
    IF transactions = << >> THEN portfolio
    ELSE derive_holdings(Tail(transactions),
             update_portfolio(portfolio, Head(transactions).symbol,
                              Head(transactions).type, Head(transactions).quantity))

Permuted(seq, p) == [i \in 1..Len(seq) |-> seq[p[i]]]

----------------------------------------------------------------------------
(* The market-data source (utils/stock_data.py) as one computation sees it:  *)
(* per symbol, the outcome of get_stock_price (a price, "none", or "raise")  *)
(* and of get_stock_info (a snapshot, "none", or "raise").                   *)

\* outcomes of get_stock_price: a price, None, or an exception
Ok(value) == [status |-> "ok", value |-> value]
None == [status |-> "none", value |-> 0]
Raises == [status |-> "raise", value |-> 0]

\* outcomes of get_stock_info: a snapshot (the fields read here), None, or an
\* exception; market_cap is in millions of USD
Info(sector, market_cap) == [status |-> "ok", sector |-> sector, market_cap |-> market_cap]
InfoNone == [status |-> "none", sector |-> "Unknown", market_cap |-> 0]
InfoRaises == [status |-> "raise", sector |-> "Unknown", market_cap |-> 0]

get_stock_price(symbol) == market.price[symbol]

get_stock_info(symbol) == market.info[symbol]

\* `if current_price:` after a lookup that did not raise
Priced(symbol) ==
    get_stock_price(symbol).status = "ok" /\ get_stock_price(symbol).value # 0

----------------------------------------------------------------------------
(* calculate_portfolio_value *)

\* the loop left at the first lookup that raises
RECURSIVE portfolio_value_loop_aborting(_, _, _)
portfolio_value_loop_aborting(portfolio, symbols, total_value) ==
    IF symbols = {} THEN total_value
    ELSE LET symbol == CHOOSE s \in symbols : TRUE
             current_price == get_stock_price(symbol)
         IN  IF current_price.status = "raise"
             THEN total_value
             ELSE IF current_price.status = "ok" /\ current_price.value # 0
             THEN portfolio_value_loop_aborting(portfolio, symbols \ {symbol},
                      RAdd(total_value, Num(current_price.value * portfolio[symbol])))
             ELSE portfolio_value_loop_aborting(portfolio, symbols \ {symbol}, total_value)

RECURSIVE portfolio_value_loop(_, _, _)
portfolio_value_loop(portfolio, symbols, total_value) ==
    IF symbols = {} THEN total_value
    ELSE LET symbol == CHOOSE s \in symbols : TRUE
             current_price == get_stock_price(symbol)
         IN  IF current_price.status = "raise"
             THEN portfolio_value_loop(portfolio, symbols \ {symbol}, total_value)
             ELSE IF current_price.status = "ok" /\ current_price.value # 0
             THEN portfolio_value_loop(portfolio, symbols \ {symbol},
                      RAdd(total_value, Num(current_price.value * portfolio[symbol])))
             ELSE portfolio_value_loop(portfolio, symbols \ {symbol}, total_value)

calculate_portfolio_value(portfolio) ==
    portfolio_value_loop(portfolio, DOMAIN portfolio, Num(0))

----------------------------------------------------------------------------
(* calculate_portfolio_metrics *)

EmptyDict == [k \in {} |-> 0]

OfType(transactions, type) == SelectSeq(transactions, LAMBDA t : t.type = type)

OfSymbol(transactions, symbol) == SelectSeq(transactions, LAMBDA t : t.symbol = symbol)

\* (df['quantity'] * df['price']).sum()
RECURSIVE sum_cost(_)
sum_cost(transactions) ==
    IF transactions = << >> THEN 0
    ELSE Head(transactions).quantity * Head(transactions).price + sum_cost(Tail(transactions))

\* df['quantity'].sum()
RECURSIVE sum_quantity(_)
sum_quantity(transactions) ==
    IF transactions = << >> THEN 0
    ELSE Head(transactions).quantity + sum_quantity(Tail(transactions))

\* df['symbol'].unique(): the symbols in order of first appearance
RECURSIVE unique_symbols(_, _)
unique_symbols(transactions, seen) ==
    IF transactions = << >> THEN seen
    ELSE IF \E i \in 1..Len(seen) : seen[i] = Head(transactions).symbol
         THEN unique_symbols(Tail(transactions), seen)
         ELSE unique_symbols(Tail(transactions), Append(seen, Head(transactions).symbol))

\* the unweighted mean of the buy prices
avg_buy_price_unweighted(symbol_buys) ==
    RDiv(Num(sum_quantity([i \in 1..Len(symbol_buys) |-> [quantity |-> symbol_buys[i].price]])),
         Num(Len(symbol_buys)))

avg_buy_price(symbol_buys) ==
    RDiv(Num(sum_cost(symbol_buys)), Num(sum_quantity(symbol_buys)))

RECURSIVE realized_of_sells(_, _, _)
realized_of_sells(symbol_sells, avg, realized_gains) ==
    IF symbol_sells = << >> THEN realized_gains
    ELSE LET sell == Head(symbol_sells)
             realized_gain == RMul(RSub(Num(sell.price), avg), Num(sell.quantity))
         IN  realized_of_sells(Tail(symbol_sells), avg, RAdd(realized_gains, realized_gain))

RECURSIVE realized_gains_loop(_, _, _, _)
realized_gains_loop(symbols, buy_transactions, sell_transactions, realized_gains) ==
    IF symbols = << >> THEN realized_gains
    ELSE LET symbol_sells == OfSymbol(sell_transactions, Head(symbols))
             symbol_buys == OfSymbol(buy_transactions, Head(symbols))
         IN  IF symbol_buys # << >>
             THEN realized_gains_loop(Tail(symbols), buy_transactions, sell_transactions,
                      realized_of_sells(symbol_sells, avg_buy_price(symbol_buys), realized_gains))
             ELSE realized_gains_loop(Tail(symbols), buy_transactions, sell_transactions,
                      realized_gains)

\* the realized gains left out of the reconciliation
unrealized_gains_without_realized(total_current_value, total_invested, realized_gains) ==
    RSub(total_current_value, total_invested)

unrealized_gains(total_current_value, total_invested, realized_gains) ==
    RAdd(RSub(total_current_value, total_invested), realized_gains)

\* the total taken to be the reconciled gains alone
total_return_unrealized_only(realized_gains, unrealized) == unrealized

total_return(realized_gains, unrealized) == RAdd(realized_gains, unrealized)

\* the percentage without the guard on total_invested
total_return_percent_unguarded(total, total_invested) ==
    RMul(RDiv(total, total_invested), Num(100))

total_return_percent(total, total_invested) ==
    IF RPositive(total_invested)
    THEN RMul(RDiv(total, total_invested), Num(100))
    ELSE Num(0)

calculate_portfolio_metrics(portfolio, transactions) ==
    IF transactions = << >> THEN EmptyDict
    ELSE LET buy_transactions == OfType(transactions, "buy")
             total_invested == Num(sum_cost(buy_transactions))
             total_current_value == calculate_portfolio_value(portfolio)
             sell_transactions == OfType(transactions, "sell")
             realized_gains == realized_gains_loop(unique_symbols(sell_transactions, << >>),
                                   buy_transactions, sell_transactions, Num(0))
             unrealized == unrealized_gains(total_current_value, total_invested, realized_gains)
             total == total_return(realized_gains, unrealized)
         IN  [ total_invested |-> total_invested,
               total_current_value |-> total_current_value,
               total_return |-> total,
               total_return_percent |-> total_return_percent(total, total_invested),
               realized_gains |-> realized_gains,
               unrealized_gains |-> unrealized,
               win_rate |-> Num(0),
               number_of_trades |-> Len(transactions),
               average_holding_period |-> Num(0) ]

----------------------------------------------------------------------------
(* get_portfolio_breakdown *)

\* the category computed inside get_portfolio_breakdown
cap_category(market_cap) ==
    IF market_cap >= 10000 THEN "Large Cap"
    ELSE IF market_cap >= 2000 THEN "Mid Cap"
    ELSE IF market_cap >= 300 THEN "Small Cap"
    ELSE "Micro Cap"

categorize_by_market_cap(market_cap) ==
    IF market_cap >= 200000 THEN "Mega Cap"
    ELSE IF market_cap >= 10000 THEN "Large Cap"
    ELSE IF market_cap >= 2000 THEN "Mid Cap"
    ELSE IF market_cap >= 300 THEN "Small Cap"
    ELSE IF market_cap >= 50 THEN "Micro Cap"
    ELSE "Nano Cap"

\* d[key] += amount, the key created with 0 when missing
Accumulate(d, key, amount) ==
    [k \in DOMAIN d \cup {key} |->
        IF k = key THEN RAdd(Get(d, key, Num(0)), amount) ELSE d[k]]

EmptyBreakdown ==
    [ by_sector |-> EmptyDict, by_market_cap |-> EmptyDict,
      by_value |-> EmptyDict, total_value |-> Num(0) ]

RECURSIVE breakdown_loop(_, _, _)
breakdown_loop(portfolio, symbols, breakdown) ==
    IF symbols = {} THEN breakdown
    ELSE LET symbol == CHOOSE s \in symbols : TRUE
             quantity == portfolio[symbol]
             stock_info == get_stock_info(symbol)
             current_price == get_stock_price(symbol)
             position_value == Num(current_price.value * quantity)
         IN  IF stock_info.status = "raise" \/ current_price.status = "raise"
             THEN breakdown_loop(portfolio, symbols \ {symbol}, breakdown)
             ELSE IF stock_info.status = "ok" /\ current_price.status = "ok"
                     /\ current_price.value # 0
             THEN breakdown_loop(portfolio, symbols \ {symbol},
                     [ total_value |-> RAdd(breakdown.total_value, position_value),
                       by_sector |-> Accumulate(breakdown.by_sector, stock_info.sector,
                                                position_value),
                       by_market_cap |-> Accumulate(breakdown.by_market_cap,
                                                    cap_category(stock_info.market_cap),
                                                    position_value),
                       by_value |-> [k \in DOMAIN breakdown.by_value \cup {symbol} |->
                                        IF k = symbol
                                        THEN [ quantity |-> quantity,
                                               price |-> current_price.value,
                                               value |-> position_value,
                                               weight |-> Num(0) ]
                                        ELSE breakdown.by_value[k]] ])
             ELSE breakdown_loop(portfolio, symbols \ {symbol}, breakdown)

\* the weight without the factor 100
weight_fraction(value, total_value) == RDiv(value, total_value)

weight(value, total_value) == RMul(RDiv(value, total_value), Num(100))

calculate_weights(breakdown) ==
    IF RPositive(breakdown.total_value)
    THEN [ breakdown EXCEPT !.by_value =
             [symbol \in DOMAIN breakdown.by_value |->
                 [ breakdown.by_value[symbol] EXCEPT
                     !.weight = weight(breakdown.by_value[symbol].value,
                                       breakdown.total_value) ]] ]
    ELSE breakdown

get_portfolio_breakdown(portfolio) ==
    calculate_weights(breakdown_loop(portfolio, DOMAIN portfolio, EmptyBreakdown))

----------------------------------------------------------------------------

Init ==
    /\ USE_DATABASE \in BOOLEAN
    /\ store_transactions = << >>
    /\ store_portfolio = EmptyPortfolio
    /\ ss_transactions = << >>
    /\ ss_portfolio = EmptyPortfolio
    /\ clock = 0
    /\ faults = 0
    /\ last = NoCall
    /\ market = [price |-> [s \in Symbols |-> None], info |-> [s \in Symbols |-> InfoNone]]
    /\ result = [op |-> "none"]
    /\ NoRules

Next == add_transaction

\* the store works: no store operation fails
Spec == Init /\ [][Next]_vars

\* up to MaxFaults store operations fail
InitFaults ==
    /\ USE_DATABASE \in BOOLEAN
    /\ store_transactions = << >>
    /\ store_portfolio = EmptyPortfolio
    /\ ss_transactions = << >>
    /\ ss_portfolio = EmptyPortfolio
    /\ clock = 0
    /\ faults = MaxFaults
    /\ last = NoCall
    /\ market = [price |-> [s \in Symbols |-> None], info |-> [s \in Symbols |-> InfoNone]]
    /\ result = [op |-> "none"]
    /\ NoRules

SpecFaults == InitFaults /\ [][Next]_vars

----------------------------------------------------------------------------
(* Claims about the ledger and the holdings *)

AddTransactionDone == last.op = "add_transaction"

\* C1: after any sequence of add_transaction calls the stored holdings equal
\* the replay of the whole stored ledger (add on buy, subtract on sell, drop
\* the symbols whose accumulated quantity is <= 0 only after the replay).
C1_HoldingsEqualReplay ==
    store_portfolio = current_portfolio(store_transactions)

\* C2: every symbol present in the holdings (stored or in the session) has a
\* quantity > 0, and a held symbol whose whole quantity is sold by a
\* successful add_transaction is absent from the stored holdings afterwards.
C2_PositiveAndEvicted ==
    /\ \A s \in DOMAIN store_portfolio : store_portfolio[s] > 0
    /\ \A s \in DOMAIN ss_portfolio : ss_portfolio[s] > 0
    /\ ( /\ AddTransactionDone
         /\ last.ret
         /\ last.type = "sell"
         /\ last.symbol \in DOMAIN last.before_portfolio
         /\ last.before_portfolio[last.symbol] = last.quantity )
       => last.symbol \notin DOMAIN store_portfolio

\* a buy of 4 or of 10 shares of a symbol, then the sale of all of them
C2_Witness ==
    /\ AddTransactionDone
    /\ last.ret
    /\ last.type = "sell"
    /\ last.symbol \in DOMAIN last.before_portfolio
    /\ last.before_portfolio[last.symbol] = last.quantity
    /\ Len(last.before_transactions) = 1
    /\ last.before_transactions[1].type = "buy"
    /\ last.before_transactions[1].symbol = last.symbol
    /\ last.symbol \notin DOMAIN store_portfolio
    /\ last.symbol \notin DOMAIN ss_portfolio

\* the first half of C2: no holding with a quantity <= 0 (also under SpecFaults)
HoldingsPositive ==
    /\ \A s \in DOMAIN store_portfolio : store_portfolio[s] > 0
    /\ \A s \in DOMAIN ss_portfolio : ss_portfolio[s] > 0

\* C3: deriving the holdings from a ledger gives the same result for every
\* permutation of the ledger's transactions (and, trivially, when repeated).
C3_OrderInsensitive ==
    \A p \in Permutations(1..Len(store_transactions)) :
        derive_holdings(Permuted(store_transactions, p), EmptyPortfolio)
            = derive_holdings(store_transactions, EmptyPortfolio)

\* the replay of the home page is order-insensitive
ReplayOrderInsensitive ==
    \A p \in Permutations(1..Len(store_transactions)) :
        current_portfolio(Permuted(store_transactions, p))
            = current_portfolio(store_transactions)

\* C4: the ledger is append-only: a successful add_transaction keeps every
\* recorded transaction and appends exactly one record (symbol uppercased,
\* total = quantity * price); a failed one leaves the ledger as it was.
C4_AppendOnly ==
    AddTransactionDone =>
        IF last.ret
        THEN store_transactions =
                 Append(last.before_transactions,
                        Transaction(last.symbol, last.type, last.quantity, last.price, clock))
        ELSE store_transactions = last.before_transactions

----------------------------------------------------------------------------
(* The metrics as a function of its arguments: the arguments are drawn in   *)
(* the initial state, the action applies calculate_portfolio_metrics to the *)
(* session's holdings and transactions as the Portfolio page does.          *)

NoResult == [op |-> "none"]

Portfolios(symbols) ==
    UNION { [held -> Quantities] : held \in SUBSET symbols }

Ledgers(n) ==
    { [i \in 1..n |-> Transaction(f[i][1], f[i][2], f[i][3], f[i][4], i)] :
        f \in [1..n -> Symbols \X Types \X Quantities \X Prices] }

NoInfo == [s \in Symbols |-> InfoNone]

InitMetrics ==
    /\ USE_DATABASE = TRUE
    /\ store_transactions = << >>
    /\ store_portfolio = EmptyPortfolio
    /\ \E n \in 0..MaxLedger : ss_transactions \in Ledgers(n)
    /\ ss_portfolio \in Portfolios({"A"})
    /\ clock = 0
    /\ faults = 0
    /\ last = NoCall
    /\ \E quote \in {None, Ok(130)} :
          market = [ price |-> [s \in Symbols |-> IF s = "A" THEN quote ELSE None],
                     info |-> NoInfo ]
    /\ result = NoResult
    /\ NoRules

portfolio_metrics ==
    /\ result = NoResult
    /\ result' = [ op |-> "calculate_portfolio_metrics",
                   value |-> calculate_portfolio_metrics(ss_portfolio, ss_transactions) ]
    /\ UNCHANGED << USE_DATABASE, store_transactions, store_portfolio, ss_transactions,
                    ss_portfolio, clock, faults, last, market,
                    ss_trading_rules, store_rules, alerts >>

NextMetrics == portfolio_metrics

SpecMetrics == InitMetrics /\ [][NextMetrics]_vars

----------------------------------------------------------------------------
(* Claims about calculate_portfolio_metrics *)

MetricsDone == result.op = "calculate_portfolio_metrics"

\* a field of the returned metrics as the pages read it: metrics.get(key, 0)
Metric(key) == Get(result.value, key, Num(0))

RECURSIVE IntSum(_, _)
IntSum(f, keys) ==
    IF keys = {} THEN 0
    ELSE LET k == CHOOSE k \in keys : TRUE IN f[k] + IntSum(f, keys \ {k})

Buys(transactions) == {i \in 1..Len(transactions) : transactions[i].type = "buy"}

Sells(transactions) == {i \in 1..Len(transactions) : transactions[i].type = "sell"}

BuysOf(transactions, symbol) == {i \in Buys(transactions) : transactions[i].symbol = symbol}

\* sum of quantity * price over all buys
InvestedInBuys(transactions) ==
    IntSum([i \in Buys(transactions) |-> transactions[i].quantity * transactions[i].price],
           Buys(transactions))

\* (sum of buy quantity * buy price) / (sum of buy quantities), buys of the symbol only
AverageCost(transactions, symbol) ==
    RDiv(Num(IntSum([i \in BuysOf(transactions, symbol) |->
                        transactions[i].quantity * transactions[i].price],
                    BuysOf(transactions, symbol))),
         Num(IntSum([i \in BuysOf(transactions, symbol) |-> transactions[i].quantity],
                    BuysOf(transactions, symbol))))

\* sum over the sells of symbols that have a buy of (sellPrice - averageCost) * sellQuantity
SellsWithBuys(transactions) ==
    {i \in Sells(transactions) : BuysOf(transactions, transactions[i].symbol) # {}}

RealizedOverSells(transactions) ==
    SumOver([i \in SellsWithBuys(transactions) |->
                RMul(RSub(Num(transactions[i].price),
                          AverageCost(transactions, transactions[i].symbol)),
                     Num(transactions[i].quantity))],
            SellsWithBuys(transactions))

\* C5: the metrics satisfy unrealized_gains = total_current_value -
\* total_invested + realized_gains, total_invested being the sum of
\* quantity * price over all buys of the ledger.
C5_ReturnIdentity ==
    MetricsDone =>
        /\ Metric("unrealized_gains") =
               RAdd(RSub(Metric("total_current_value"), Metric("total_invested")),
                    Metric("realized_gains"))
        /\ Metric("total_invested") = Num(InvestedInBuys(ss_transactions))

\* a ledger with a buy and a later sell of the same symbol, holdings with a value
C5_Witness ==
    /\ MetricsDone
    /\ \E i, j \in 1..Len(ss_transactions) :
          /\ i < j
          /\ ss_transactions[i].type = "buy"
          /\ ss_transactions[j].type = "sell"
          /\ ss_transactions[i].symbol = ss_transactions[j].symbol
    /\ RPositive(Metric("total_current_value"))
    /\ Metric("realized_gains") # Num(0)

\* C6: realized_gains is the sum, over the sells of every symbol that has a
\* buy, of (sell price - average cost) * sell quantity, the average cost
\* taken over the buys only; sells of a symbol without buys contribute
\* nothing; buy 10 @ 100 then sell 4 @ 120 gives 80.
C6_RealizedGains ==
    MetricsDone =>
        /\ Metric("realized_gains") = RealizedOverSells(ss_transactions)
        /\ Metric("realized_gains") # ZeroDivision
        /\ ( /\ Len(ss_transactions) = 2
             /\ ss_transactions[1] = Transaction("A", "buy", 10, 100, 1)
             /\ ss_transactions[2] = Transaction("A", "sell", 4, 120, 2) )
           => Metric("realized_gains") = Num(80)

\* two buys of a symbol at different prices and quantities, and a sell of it
C6_Witness ==
    /\ MetricsDone
    /\ \E i, j, k \in 1..Len(ss_transactions) :
          /\ i # j
          /\ ss_transactions[i].type = "buy"
          /\ ss_transactions[j].type = "buy"
          /\ ss_transactions[k].type = "sell"
          /\ ss_transactions[i].symbol = ss_transactions[k].symbol
          /\ ss_transactions[j].symbol = ss_transactions[k].symbol
          /\ ss_transactions[i].price # ss_transactions[j].price
          /\ ss_transactions[i].quantity # ss_transactions[j].quantity
    /\ Metric("realized_gains") = RealizedOverSells(ss_transactions)

\* C7: total_return = realized_gains + unrealized_gains; total_return_percent
\* = total_return / total_invested * 100, and 0 without a division when
\* total_invested is 0.
C7_TotalReturn ==
    MetricsDone =>
        /\ Metric("total_return") =
               RAdd(Metric("realized_gains"), Metric("unrealized_gains"))
        /\ Metric("total_return_percent") =
               IF Metric("total_invested") = Num(0)
               THEN Num(0)
               ELSE RMul(RDiv(Metric("total_return"), Metric("total_invested")), Num(100))

\* a ledger of sells only and holdings with a value: nothing invested, a
\* total return that is not 0, and the percentage is 0
C7_Witness ==
    /\ MetricsDone
    /\ ss_transactions # << >>
    /\ \A i \in 1..Len(ss_transactions) : ss_transactions[i].type = "sell"
    /\ Metric("total_invested") = Num(0)
    /\ RPositive(Metric("total_return"))
    /\ Metric("total_return_percent") = Num(0)

----------------------------------------------------------------------------
(* The valuation and the breakdown as functions of the holdings and of the  *)
(* market: both are drawn in the initial state, the actions apply           *)
(* calculate_portfolio_value and get_portfolio_breakdown to the session's   *)
(* holdings as the Portfolio page does.                                     *)

HeldSymbols == {"A", "B"}

\* a lookup returns nothing, raises, or returns a quote; a quote of 0 is falsy
PriceOutcomes == {None, Raises, Ok(0)} \cup {Ok(p) : p \in QuotePrices}

\* market caps around every threshold of both categorisations, in millions
MarketCaps == {49, 50, 299, 300, 1999, 2000, 9999, 10000, 199999, 200000}

InfoOutcomes == {InfoNone, InfoRaises} \cup {Info("Technology", c) : c \in MarketCaps}

InitPortfolio ==
    /\ USE_DATABASE = TRUE
    /\ store_transactions = << >>
    /\ store_portfolio = EmptyPortfolio
    /\ ss_transactions = << >>
    /\ ss_portfolio \in Portfolios(HeldSymbols)
    /\ clock = 0
    /\ faults = 0
    /\ last = NoCall
    /\ \E price \in [HeldSymbols -> PriceOutcomes], info \in [HeldSymbols -> InfoOutcomes] :
          market = [ price |-> [s \in Symbols |-> IF s \in HeldSymbols THEN price[s] ELSE None],
                     info |-> [s \in Symbols |-> IF s \in HeldSymbols THEN info[s] ELSE InfoNone] ]
    /\ result = NoResult
    /\ NoRules

portfolio_value ==
    /\ result = NoResult
    /\ result' = [ op |-> "calculate_portfolio_value",
                   value |-> calculate_portfolio_value(ss_portfolio) ]
    /\ UNCHANGED << USE_DATABASE, store_transactions, store_portfolio, ss_transactions,
                    ss_portfolio, clock, faults, last, market,
                    ss_trading_rules, store_rules, alerts >>

portfolio_breakdown ==
    /\ result = NoResult
    /\ result' = [ op |-> "get_portfolio_breakdown",
                   value |-> get_portfolio_breakdown(ss_portfolio) ]
    /\ UNCHANGED << USE_DATABASE, store_transactions, store_portfolio, ss_transactions,
                    ss_portfolio, clock, faults, last, market,
                    ss_trading_rules, store_rules, alerts >>

NextPortfolio == portfolio_value \/ portfolio_breakdown

SpecPortfolio == InitPortfolio /\ [][NextPortfolio]_vars

----------------------------------------------------------------------------
(* Claims about calculate_portfolio_value and get_portfolio_breakdown *)

ValueDone == result.op = "calculate_portfolio_value"

BreakdownDone == result.op = "get_portfolio_breakdown"

\* the held symbols with an available quote
PricedHoldings == {s \in DOMAIN ss_portfolio : Priced(s)}

\* the held symbols with an available quote and an available info snapshot
PricedPositions == {s \in PricedHoldings : get_stock_info(s).status = "ok"}

PositionValue(s) == get_stock_price(s).value * ss_portfolio[s]

\* what the call reports as unpriced: the symbols of a field `unpriced` of
\* the returned value, if it has one
ReportedUnpriced == IF "unpriced" \in DOMAIN result THEN result.unpriced ELSE {}

Weights == [s \in DOMAIN result.value.by_value |-> result.value.by_value[s].weight]

\* C8: with a non-empty by_value and a positive total_value the weights sum
\* to 100, each weight being value / total_value * 100 with total_value the
\* sum over all priced positions; with total_value = 0 every weight is 0
\* and nothing is divided.
C8_WeightsSumTo100 ==
    BreakdownDone =>
        /\ result.value.total_value =
               Num(IntSum([s \in PricedPositions |-> PositionValue(s)], PricedPositions))
        /\ DOMAIN result.value.by_value = PricedPositions
        /\ (DOMAIN result.value.by_value # {} /\ RPositive(result.value.total_value)) =>
              /\ SumOver(Weights, DOMAIN Weights) = Num(100)
              /\ \A s \in DOMAIN Weights :
                    Weights[s] = RMul(RDiv(Num(PositionValue(s)), result.value.total_value),
                                      Num(100))
        /\ result.value.total_value = Num(0) =>
              \A s \in DOMAIN Weights : Weights[s] = Num(0)
        /\ \A s \in DOMAIN Weights : Weights[s] # ZeroDivision

\* two positions of different values in the breakdown
C8_Witness ==
    /\ BreakdownDone
    /\ \E s, t \in DOMAIN result.value.by_value :
          /\ s # t
          /\ result.value.by_value[s].value # result.value.by_value[t].value
    /\ RPositive(result.value.total_value)

\* C9 as stated: an unavailable quote contributes 0, the position is
\* flagged as unpriced, and the total is the sum of quote * quantity over
\* the symbols whose quote is available.
C9_UnpricedFlagged ==
    ValueDone =>
        /\ result.value =
               Num(IntSum([s \in PricedHoldings |-> PositionValue(s)], PricedHoldings))
        /\ \A s \in DOMAIN ss_portfolio \ PricedHoldings : s \in ReportedUnpriced

\* C9 amended: an unavailable quote (None or an exception) contributes 0 and
\* does not abort the computation, the total is the sum of quote * quantity
\* over exactly the symbols whose quote is available, and nothing is
\* reported as unpriced.
C9_PartialFailureTolerated ==
    ValueDone =>
        /\ result.value =
               Num(IntSum([s \in PricedHoldings |-> PositionValue(s)], PricedHoldings))
        /\ ReportedUnpriced = {}

\* one holding whose lookup raises and one holding with a quote
C9_Witness ==
    /\ ValueDone
    /\ \E s, t \in DOMAIN ss_portfolio :
          /\ get_stock_price(s).status = "raise"
          /\ Priced(t)
          /\ result.value = Num(PositionValue(t))

Bands == {"Mega Cap", "Large Cap", "Mid Cap", "Small Cap", "Micro Cap", "Nano Cap"}

InBand(band) ==
    {s \in PricedPositions : categorize_by_market_cap(get_stock_info(s).market_cap) = band}

\* C10: by_market_cap holds, for every band, the sum of the values of the
\* priced positions whose market cap falls in the band by the thresholds of
\* categorize_by_market_cap (Mega >= 200B, Large >= 10B, Mid >= 2B,
\* Small >= 300M, Micro >= 50M, else Nano).
C10_BandsAsCategorize ==
    BreakdownDone =>
        /\ DOMAIN result.value.by_market_cap \subseteq Bands
        /\ \A band \in Bands :
              Get(result.value.by_market_cap, band, Num(0)) =
                  Num(IntSum([s \in InBand(band) |-> PositionValue(s)], InBand(band)))

----------------------------------------------------------------------------
(* Trading rules (utils/trading_rules.py).  A rule is the dict its creator  *)
(* returns; an id is the triple of the parts its f-string is made of.       *)

\* datetime.now() at clock reading t, and its isoformat() string
Datetime(t) == [kind |-> "datetime", at |-> t]

isoformat(created_at) == [kind |-> "str", at |-> created_at.at]

fromisoformat(created_at) == [kind |-> "datetime", at |-> created_at.at]

create_price_alert(symbol, target_price, alert_type, now) ==
    [ id |-> << "price_alert", symbol, now >>, type |-> "price_alert", symbol |-> symbol,
      target_price |-> target_price, alert_type |-> alert_type,
      created_at |-> Datetime(now), active |-> TRUE ]

create_stop_loss(symbol, stop_price, portfolio_quantity, now) ==
    [ id |-> << "stop_loss", symbol, now >>, type |-> "stop_loss", symbol |-> symbol,
      stop_price |-> stop_price, quantity |-> portfolio_quantity,
      created_at |-> Datetime(now), active |-> TRUE ]

create_take_profit(symbol, target_price, portfolio_quantity, now) ==
    [ id |-> << "take_profit", symbol, now >>, type |-> "take_profit", symbol |-> symbol,
      target_price |-> target_price, quantity |-> portfolio_quantity,
      created_at |-> Datetime(now), active |-> TRUE ]

create_percentage_change_alert(symbol, percentage_threshold, direction, now) ==
    [ id |-> << "pct_change", symbol, now >>, type |-> "percentage_change", symbol |-> symbol,
      percentage_threshold |-> percentage_threshold, direction |-> direction,
      created_at |-> Datetime(now), active |-> TRUE ]

create_volume_alert(symbol, volume_threshold, comparison, now) ==
    [ id |-> << "volume", symbol, now >>, type |-> "volume_alert", symbol |-> symbol,
      volume_threshold |-> volume_threshold, comparison |-> comparison,
      created_at |-> Datetime(now), active |-> TRUE ]

\* the info snapshot as the rules read it: day_change_percent in percent,
\* volume and avg_volume in shares
InfoSnapshot(day_change_percent, volume, avg_volume) ==
    [ status |-> "ok", sector |-> "Technology", market_cap |-> 10000,
      day_change_percent |-> day_change_percent, volume |-> volume,
      avg_volume |-> avg_volume ]

\* x >= y on fractions
RGeq(x, y) == x[1] * y[2] >= y[1] * x[2]

NoAlert == [type |-> "None"]

\* the dict of an alert; the message is the text of its f-string and the
\* values it interpolates
Alert(type, text, values, rule, now) ==
    [ type |-> type, message |-> [text |-> text, symbol |-> rule.symbol, values |-> values],
      rule_id |-> rule.id, symbol |-> rule.symbol, timestamp |-> Datetime(now) ]

\* ... with 'action_suggested': f"Consider selling {rule.get('quantity', 0)} shares"
AlertWithAction(type, text, values, rule, now) ==
    [ type |-> type, message |-> [text |-> text, symbol |-> rule.symbol, values |-> values],
      rule_id |-> rule.id, symbol |-> rule.symbol, timestamp |-> Datetime(now),
      action_suggested |-> [text |-> "Consider selling", quantity |-> Get(rule, "quantity", 0)] ]

\* the exception swallowed without an alert
error_alert_swallowed(rule, now) == NoAlert

\* the except branch
error_alert(rule, now) == Alert("error", "Error checking rule for", << >>, rule, now)

\* the division without its guard
volume_ratio_unguarded(current_volume, avg_volume) ==
    RDiv(Num(current_volume), Num(avg_volume))

\* current_volume / avg_volume if avg_volume > 0 else 0
volume_ratio(current_volume, avg_volume) ==
    IF avg_volume > 0 THEN RDiv(Num(current_volume), Num(avg_volume)) ELSE Num(0)

\* the stop-loss condition read strictly
stop_loss_triggered_strict(current_price, stop_price) == current_price < stop_price

stop_loss_triggered(current_price, stop_price) == current_price <= stop_price

\* the target of a price alert read strictly
reached_above_strict(current_price, target_price) == current_price > target_price

reached_above(current_price, target_price) == current_price >= target_price

\* the fall compared with the threshold itself
moved_down_unsigned(day_change_percent, percentage_threshold) ==
    day_change_percent <= percentage_threshold

moved_down(day_change_percent, percentage_threshold) ==
    day_change_percent <= -percentage_threshold

\* the branch of the rule's type, with a quote and a snapshot at hand
rule_alert(rule, current_price, stock_info, now) ==
    CASE rule.type = "price_alert" ->
           IF rule.alert_type = "above" /\ reached_above(current_price, rule.target_price)
           THEN Alert("warning", "has reached target price",
                      << rule.target_price, current_price >>, rule, now)
           ELSE IF rule.alert_type = "below" /\ current_price <= rule.target_price
           THEN Alert("warning", "has dropped to",
                      << rule.target_price, current_price >>, rule, now)
           ELSE NoAlert
      [] rule.type = "stop_loss" ->
           IF stop_loss_triggered(current_price, rule.stop_price)
           THEN AlertWithAction("warning", "STOP LOSS TRIGGERED",
                      << current_price, rule.stop_price >>, rule, now)
           ELSE NoAlert
      [] rule.type = "take_profit" ->
           IF current_price >= rule.target_price
           THEN AlertWithAction("success", "TAKE PROFIT",
                      << rule.target_price, current_price >>, rule, now)
           ELSE NoAlert
      [] rule.type = "percentage_change" ->
           LET day_change_percent == Get(stock_info, "day_change_percent", 0)
               percentage_threshold == rule.percentage_threshold
           IN  IF rule.direction = "up" /\ day_change_percent >= percentage_threshold
               THEN Alert("info", "up today",
                          << day_change_percent, percentage_threshold >>, rule, now)
               ELSE IF rule.direction = "down"
                       /\ moved_down(day_change_percent, percentage_threshold)
               THEN Alert("warning", "down today",
                          << Abs(day_change_percent), percentage_threshold >>, rule, now)
               ELSE NoAlert
      [] rule.type = "volume_alert" ->
           LET ratio == volume_ratio(Get(stock_info, "volume", 0),
                                     Get(stock_info, "avg_volume", 0))
               volume_threshold == Num(rule.volume_threshold)
           IN  IF rule.comparison = "above" /\ RGeq(ratio, volume_threshold)
               THEN Alert("info", "volume x average", << ratio, volume_threshold >>, rule, now)
               ELSE IF rule.comparison = "below" /\ RGeq(volume_threshold, ratio)
               THEN Alert("info", "low volume x average",
                          << ratio, volume_threshold >>, rule, now)
               ELSE NoAlert
      [] OTHER -> NoAlert

\* the flag taken to be set
is_active_always(rule) == TRUE

\* rule.get('active', False)
is_active(rule) == Get(rule, "active", FALSE)

\* a rule evaluated without the test of the snapshot
check_trading_rules_without_info(rule, now) ==
    IF ~is_active(rule) THEN NoAlert
    ELSE LET current_price == get_stock_price(rule.symbol)
             stock_info == get_stock_info(rule.symbol)
         IN  IF current_price.status = "raise" THEN error_alert(rule, now)
             ELSE IF ~Priced(rule.symbol) THEN NoAlert
             ELSE IF stock_info.status = "raise" THEN error_alert(rule, now)
             ELSE rule_alert(rule, current_price.value, stock_info, now)

check_trading_rules(rule, now) ==
    IF ~is_active(rule) THEN NoAlert
    ELSE LET current_price == get_stock_price(rule.symbol)
             stock_info == get_stock_info(rule.symbol)
         IN  IF current_price.status = "raise" THEN error_alert(rule, now)
             ELSE IF ~Priced(rule.symbol) THEN NoAlert
             ELSE IF stock_info.status = "raise" THEN error_alert(rule, now)
             ELSE IF stock_info.status = "none" THEN NoAlert
             ELSE rule_alert(rule, current_price.value, stock_info, now)

----------------------------------------------------------------------------
(* One rule evaluated against one state of the market: the rule is the only *)
(* one of the session, its symbol is "A".                                   *)

RuleQuantities == {0, 10}      \* the held quantity, 0 for a hypothetical rule
RulePrices == {180}            \* target_price / stop_price
PercentageThreshold == 5       \* the default of the input "Percentage Threshold"
VolumeThreshold == 2           \* the default of the input "Volume Threshold (x average)"

\* the rules the creators return for valid parameters, created at reading t
CreatedRules(symbol, t) ==
    {create_price_alert(symbol, p, a, t) : p \in RulePrices, a \in {"above", "below"}}
    \cup {create_stop_loss(symbol, p, q, t) : p \in RulePrices, q \in RuleQuantities}
    \cup {create_take_profit(symbol, p, q, t) : p \in RulePrices, q \in RuleQuantities}
    \cup {create_percentage_change_alert(symbol, PercentageThreshold, d, t) :
            d \in {"up", "down"}}
    \cup {create_volume_alert(symbol, VolumeThreshold, c, t) : c \in {"above", "below"}}

\* quotes around the price of the rule
RuleQuotes == {None, Raises, Ok(0), Ok(179), Ok(180), Ok(181)}

DayChanges == {-6, -5, -4, 4, 5, 6}

\* <<volume, avg_volume>>: no average, ratios 1, 3/2, 2 and 3
Volumes == {<<0, 0>>, <<300, 0>>, <<100, 100>>, <<150, 100>>, <<200, 100>>, <<300, 100>>}

RuleInfos ==
    {InfoNone, InfoRaises}
    \cup {InfoSnapshot(d, v[1], v[2]) : d \in DayChanges, v \in Volumes}

InitEvaluate ==
    /\ USE_DATABASE = TRUE
    /\ store_transactions = << >>
    /\ store_portfolio = EmptyPortfolio
    /\ ss_transactions = << >>
    /\ ss_portfolio = EmptyPortfolio
    /\ clock = 1
    /\ faults = 0
    /\ last = NoCall
    /\ \E price \in RuleQuotes, info \in RuleInfos :
          market = [ price |-> [s \in Symbols |-> IF s = "A" THEN price ELSE None],
                     info |-> [s \in Symbols |-> IF s = "A" THEN info ELSE InfoNone] ]
    /\ result = NoResult
    /\ \E rule \in CreatedRules("A", 0), active \in BOOLEAN :
          ss_trading_rules = << [rule EXCEPT !.active = active] >>
    /\ store_rules = << >>
    /\ alerts = << >>

evaluate_rule ==
    /\ result = NoResult
    /\ result' = [ op |-> "check_trading_rules", rule |-> ss_trading_rules[1],
                   value |-> check_trading_rules(ss_trading_rules[1], clock) ]
    /\ UNCHANGED << USE_DATABASE, store_transactions, store_portfolio, ss_transactions,
                    ss_portfolio, clock, faults, last, market,
                    ss_trading_rules, store_rules, alerts >>

NextEvaluate == evaluate_rule

SpecEvaluate == InitEvaluate /\ [][NextEvaluate]_vars

----------------------------------------------------------------------------
(* Claims about check_trading_rules *)

EvaluateDone == result.op = "check_trading_rules"

TheRule == ss_trading_rules[1]

\* the rule is active, its quote is available and its snapshot is available
Evaluable ==
    /\ TheRule.active
    /\ Priced(TheRule.symbol)
    /\ get_stock_info(TheRule.symbol).status = "ok"

Quote == get_stock_price(TheRule.symbol).value

Snapshot == get_stock_info(TheRule.symbol)

\* the returned alert is one of the given severity for the rule
Fires(severity) ==
    /\ result.value.type = severity
    /\ result.value.rule_id = TheRule.id
    /\ result.value.symbol = TheRule.symbol

\* C15: for an active stop_loss rule with quote and snapshot available, the
\* result is a warning alert with the rule's id and symbol and an
\* action_suggested mentioning the rule's quantity exactly when
\* price <= stop_price, and no alert when price > stop_price.
C15_StopLoss ==
    (EvaluateDone /\ Evaluable /\ TheRule.type = "stop_loss") =>
        IF Quote <= TheRule.stop_price
        THEN /\ Fires("warning")
             /\ "action_suggested" \in DOMAIN result.value
             /\ result.value.action_suggested.quantity = TheRule.quantity
        ELSE result.value = NoAlert

\* stop price 180 reached exactly, by a rule on 10 held shares
C15_Witness ==
    /\ EvaluateDone /\ Evaluable /\ TheRule.type = "stop_loss"
    /\ TheRule.stop_price = 180 /\ Quote = 180 /\ TheRule.quantity = 10
    /\ result.value.type = "warning"

\* C16: for an active percentage_change rule with quote and snapshot
\* available, the result is an alert exactly when (up and
\* day_change_percent >= threshold) or (down and day_change_percent <=
\* -threshold), of type info for up and warning for down; otherwise no alert.
C16_PercentageChange ==
    (EvaluateDone /\ Evaluable /\ TheRule.type = "percentage_change") =>
        IF TheRule.direction = "up" /\ Snapshot.day_change_percent >= TheRule.percentage_threshold
        THEN Fires("info")
        ELSE IF TheRule.direction = "down"
                /\ Snapshot.day_change_percent + TheRule.percentage_threshold <= 0
        THEN Fires("warning")
        ELSE result.value = NoAlert

\* threshold 5, down, a day change of -6
C16_Witness ==
    /\ EvaluateDone /\ Evaluable /\ TheRule.type = "percentage_change"
    /\ TheRule.direction = "down" /\ TheRule.percentage_threshold = 5
    /\ Snapshot.day_change_percent = -6
    /\ result.value.type = "warning"

\* C17: for an active price_alert rule with quote and snapshot available,
\* the result is a warning alert exactly when (above and price >=
\* target_price) or (below and price <= target_price); otherwise no alert.
C17_PriceAlert ==
    (EvaluateDone /\ Evaluable /\ TheRule.type = "price_alert") =>
        IF \/ TheRule.alert_type = "above" /\ ~(Quote < TheRule.target_price)
           \/ TheRule.alert_type = "below" /\ ~(Quote > TheRule.target_price)
        THEN Fires("warning")
        ELSE result.value = NoAlert

\* an alert above its target with the price exactly at the target
C17_Witness ==
    /\ EvaluateDone /\ Evaluable /\ TheRule.type = "price_alert"
    /\ TheRule.alert_type = "above" /\ Quote = TheRule.target_price
    /\ result.value.type = "warning"

\* volume / avg_volume >= threshold, without a division; 0 >= threshold when
\* there is no average
RatioAtLeast(threshold) ==
    IF Snapshot.avg_volume = 0 THEN 0 >= threshold
    ELSE Snapshot.volume >= threshold * Snapshot.avg_volume

RatioAtMost(threshold) ==
    IF Snapshot.avg_volume = 0 THEN 0 <= threshold
    ELSE Snapshot.volume <= threshold * Snapshot.avg_volume

\* C18: for an active volume_alert rule with quote and snapshot available,
\* the ratio is volume / avg_volume, 0 when avg_volume is 0 (nothing is
\* divided by 0); the result is an info alert exactly when (above and
\* ratio >= volume_threshold) or (below and ratio <= volume_threshold);
\* otherwise no alert.
C18_VolumeAlert ==
    (EvaluateDone /\ Evaluable /\ TheRule.type = "volume_alert") =>
        IF \/ TheRule.comparison = "above" /\ RatioAtLeast(TheRule.volume_threshold)
           \/ TheRule.comparison = "below" /\ RatioAtMost(TheRule.volume_threshold)
        THEN /\ Fires("info")
             /\ result.value.message.values[1] # ZeroDivision
             /\ result.value.message.values[1] =
                    (IF Snapshot.avg_volume = 0 THEN Num(0)
                     ELSE Frac(Snapshot.volume, Snapshot.avg_volume))
        ELSE result.value = NoAlert

\* a volume with no average: the ratio is 0 and the rule `below` fires
C18_Witness ==
    /\ EvaluateDone /\ Evaluable /\ TheRule.type = "volume_alert"
    /\ Snapshot.avg_volume = 0 /\ Snapshot.volume > 0
    /\ TheRule.comparison = "below"
    /\ result.value.type = "info"
    /\ result.value.message.values[1] = Num(0)

\* the lookup that is made for the rule returns nothing: the quote, or the
\* snapshot once the quote is there
LookupReturnsNothing(rule) ==
    \/ get_stock_price(rule.symbol).status = "none"
    \/ Priced(rule.symbol) /\ get_stock_info(rule.symbol).status = "none"

\* C19: a rule whose quote or snapshot lookup returns nothing gets no alert,
\* whatever its type and parameters, and the rule is in the session as it
\* was.
C19_UnavailableNoAlert ==
    (EvaluateDone /\ LookupReturnsNothing(TheRule)) =>
        /\ result.value = NoAlert
        /\ ss_trading_rules = << result.rule >>

\* an active stop loss whose snapshot is missing while its quote is under
\* the stop price
C19_Witness ==
    /\ EvaluateDone
    /\ TheRule.active
    /\ TheRule.type = "stop_loss"
    /\ Priced(TheRule.symbol) /\ Quote < TheRule.stop_price
    /\ get_stock_info(TheRule.symbol).status = "none"
    /\ result.value = NoAlert

----------------------------------------------------------------------------
(* validate_rule and the persistence of the rules *)

price_field(rule_type) == IF rule_type # "stop_loss" THEN "target_price" ELSE "stop_price"

\* the test that lets a zero through
NotPositive_negative_only(rule, field) == Get(rule, field, 0) < 0

\* `not rule.get(field) or rule.get(field) <= 0`: a missing field reads as None
NotPositive(rule, field) == field \notin DOMAIN rule \/ rule[field] <= 0

\* the checks of the parameters left out
parameter_errors_none(rule) == << >>

\* the errors of the type-specific parameters
parameter_errors(rule) ==
    LET rule_type == Get(rule, "type", "")
    IN  CASE rule_type \in {"price_alert", "stop_loss", "take_profit"} ->
               IF NotPositive(rule, price_field(rule_type))
               THEN << IF rule_type = "stop_loss" THEN "Stop Price must be greater than 0"
                       ELSE "Target Price must be greater than 0" >>
               ELSE << >>
          [] rule_type = "percentage_change" ->
               (IF NotPositive(rule, "percentage_threshold")
                THEN << "Percentage threshold must be greater than 0" >> ELSE << >>)
               \o (IF Get(rule, "direction", "") \notin {"up", "down"}
                   THEN << "Direction must be 'up' or 'down'" >> ELSE << >>)
          [] rule_type = "volume_alert" ->
               (IF NotPositive(rule, "volume_threshold")
                THEN << "Volume threshold must be greater than 0" >> ELSE << >>)
               \o (IF Get(rule, "comparison", "") \notin {"above", "below"}
                   THEN << "Comparison must be 'above' or 'below'" >> ELSE << >>)
          [] OTHER -> << >>

validate_rule(rule) ==
    LET errors ==
            (IF Get(rule, "symbol", "") = "" THEN << "Symbol is required" >> ELSE << >>)
            \o (IF Get(rule, "type", "") = "" THEN << "Rule type is required" >> ELSE << >>)
            \o parameter_errors(rule)
    IN  IF Get(rule, "symbol", "") # "" /\ Len(errors) = 0
        THEN CASE get_stock_info(rule.symbol).status = "raise" ->
                    << "Could not validate symbol" >>
               [] get_stock_info(rule.symbol).status = "none" -> << "Invalid symbol" >>
               [] OTHER -> << >>
        ELSE errors

UniqueIds(rules) ==
    \A i, j \in 1..Len(rules) : rules[i].id = rules[j].id => i = j

\* json.dumps(rule) raises on a datetime
json_serializable(rule) == rule.created_at.kind # "datetime"

\* the rows are replaced in one transaction, rolled back when json.dumps
\* raises or when the unique index on rule_id refuses a row
save_trading_rules_to_db(trading_rules) ==
    IF (\A i \in 1..Len(trading_rules) : json_serializable(trading_rules[i]))
       /\ UniqueIds(trading_rules)
    THEN [stored |-> trading_rules, ret |-> TRUE]
    ELSE [stored |-> store_rules, ret |-> FALSE]

\* the file is rewritten with created_at as an isoformat string
save_trading_rules_file(trading_rules) ==
    [ stored |-> [i \in 1..Len(trading_rules) |->
                    IF trading_rules[i].created_at.kind = "datetime"
                    THEN [trading_rules[i] EXCEPT !.created_at = isoformat(@)]
                    ELSE trading_rules[i]],
      ret |-> TRUE ]

save_trading_rules(trading_rules) ==
    IF USE_DATABASE THEN save_trading_rules_to_db(trading_rules)
    ELSE save_trading_rules_file(trading_rules)

\* a loaded dict: a created_at that is a string is parsed back
parsed(rule) ==
    IF rule.created_at.kind = "str" THEN [rule EXCEPT !.created_at = fromisoformat(@)]
    ELSE rule

\* ORDER BY created_at: the index of the row that comes k-th, rows of one
\* created_at in the order of their insertion
kth_by_created_at(rows, k) ==
    CHOOSE i \in 1..Len(rows) :
        Cardinality({j \in 1..Len(rows) :
                        \/ rows[j].created_at.at < rows[i].created_at.at
                        \/ rows[j].created_at.at = rows[i].created_at.at /\ j < i}) = k - 1

\* the dicts of the column rule_data, in the order of the column created_at
load_trading_rules_from_db ==
    [k \in 1..Len(store_rules) |-> parsed(store_rules[kth_by_created_at(store_rules, k)])]

\* the dicts of the file, in the order of the file
load_trading_rules_file == [k \in 1..Len(store_rules) |-> parsed(store_rules[k])]

load_trading_rules ==
    IF USE_DATABASE THEN load_trading_rules_from_db ELSE load_trading_rules_file

----------------------------------------------------------------------------
(* The rules page (pages/4_Trading_Rules.py) *)

MaxRules == 2    \* rules in the session
MaxClock == 1    \* readings of datetime.now(): 0..MaxClock

\* the index of the first rule with the id of the rule of row i
rule_index(rules, i) ==
    CHOOSE j \in 1..Len(rules) :
        /\ rules[j].id = rules[i].id
        /\ \A k \in 1..(j - 1) : rules[k].id # rules[i].id

\* the buttons of row i exist: no row up to i asks for a key
\* (toggle_{rule_index}) that an earlier row has taken
Rendered(rules, i) == \A k \in 1..i : rule_index(rules, k) = k

\* the ids of the rules that had an alert in the run before
FiredBefore == IF "fired_before" \in DOMAIN last THEN last.fired_before ELSE {}

\* the loop keeping an alert only for a rule that had none in the run before
collect_alerts_once(rules, now, collected) ==
    collected \o SelectSeq(
        [ i \in 1..Len(rules) |->
            IF Get(rules[i], "active", TRUE) /\ rules[i].id \notin FiredBefore
            THEN check_trading_rules(rules[i], now)
            ELSE NoAlert ],
        LAMBDA alert : alert # NoAlert)

\* the loop that collects the alerts of the active rules, in the order of
\* the rules
collect_alerts(rules, now, collected) ==
    collected \o SelectSeq(
        [ i \in 1..Len(rules) |->
            IF Get(rules[i], "active", TRUE) THEN check_trading_rules(rules[i], now)
            ELSE NoAlert ],
        LAMBDA alert : alert # NoAlert)

\* one run of the page: nothing below the examples without rules, nothing
\* below the row whose buttons cannot be made
page_alerts(rules, now) ==
    IF rules = << >> THEN << >>
    ELSE IF ~Rendered(rules, Len(rules)) THEN << >>
    ELSE collect_alerts(rules, now, << >>)

RuleTypes == {"price_alert", "stop_loss", "take_profit", "percentage_change", "volume_alert"}

\* the symbol typed in the sidebar
SidebarSymbols == {"A"}

\* what the sidebar hands to the button of a type: <<number, choice>>; the
\* number inputs have no lower limit
SidebarInputs(rule_type) ==
    CASE rule_type = "price_alert" -> ({0} \cup RulePrices) \X {"above"}
      [] rule_type = "stop_loss" -> ({0} \cup RulePrices) \X {"-"}
      [] rule_type = "take_profit" -> ({0} \cup RulePrices) \X {"-"}
      [] rule_type = "percentage_change" -> {0, PercentageThreshold} \X {"down"}
      [] rule_type = "volume_alert" -> {0, VolumeThreshold} \X {"above"}

\* the quantity a stop loss or take profit is created with
held_quantity(symbol) ==
    IF symbol \in DOMAIN ss_portfolio THEN ss_portfolio[symbol] ELSE 0

\* the rule the button of the type creates
new_rule(rule_type, symbol, number, choice, now) ==
    CASE rule_type = "price_alert" -> create_price_alert(symbol, number, choice, now)
      [] rule_type = "stop_loss" ->
           create_stop_loss(symbol, number, held_quantity(symbol), now)
      [] rule_type = "take_profit" ->
           create_take_profit(symbol, number, held_quantity(symbol), now)
      [] rule_type = "percentage_change" ->
           create_percentage_change_alert(symbol, number, choice, now)
      [] rule_type = "volume_alert" -> create_volume_alert(symbol, number, choice, now)

\* a button "Create ..." of the sidebar, then the rest of the run of the page
create_rule ==
    /\ Len(ss_trading_rules) < MaxRules
    /\ \E rule_type \in RuleTypes, symbol \in SidebarSymbols :
       \E input \in SidebarInputs(rule_type) :
          /\ get_stock_info(symbol).status = "ok"
          /\ LET rule == new_rule(rule_type, symbol, input[1], input[2], clock)
                 errors == validate_rule(rule)
                 trading_rules == IF errors = << >> THEN Append(ss_trading_rules, rule)
                                  ELSE ss_trading_rules
             IN  /\ ss_trading_rules' = trading_rules
                 /\ store_rules' = IF errors = << >>
                                   THEN save_trading_rules(trading_rules).stored
                                   ELSE store_rules
                 /\ alerts' = page_alerts(trading_rules, clock)
                 /\ last' = [ op |-> "create_rule", errors |-> errors,
                              saved |-> errors = << >> /\ save_trading_rules(trading_rules).ret,
                              before_rules |-> ss_trading_rules,
                              before_store |-> store_rules ]
    /\ UNCHANGED << USE_DATABASE, store_transactions, store_portfolio, ss_transactions,
                    ss_portfolio, clock, faults, market, result >>

\* the flag set to False whatever it was
toggled_off(rules, index) == [rules EXCEPT ![index].active = FALSE]

toggled(rules, index) ==
    [rules EXCEPT ![index].active = ~Get(rules[index], "active", TRUE)]

\* the button "Toggle" of row i
toggle_rule ==
    /\ \E i \in 1..Len(ss_trading_rules) :
          /\ Rendered(ss_trading_rules, i)
          /\ LET index == rule_index(ss_trading_rules, i)
                 trading_rules == toggled(ss_trading_rules, index)
             IN  /\ ss_trading_rules' = trading_rules
                 /\ store_rules' = save_trading_rules(trading_rules).stored
                 /\ alerts' = page_alerts(trading_rules, clock)
                 /\ last' = [ op |-> "toggle_rule", row |-> i, index |-> index,
                              before |-> ss_trading_rules,
                              two_ago |-> IF last.op = "toggle_rule" /\ last.row = i
                                          THEN last.before ELSE << >> ]
    /\ UNCHANGED << USE_DATABASE, store_transactions, store_portfolio, ss_transactions,
                    ss_portfolio, clock, faults, market, result >>

\* list.pop(index)
popped(rules, index) ==
    SubSeq(rules, 1, index - 1) \o SubSeq(rules, index + 1, Len(rules))

\* the button "Delete" of row i
delete_rule ==
    /\ \E i \in 1..Len(ss_trading_rules) :
          /\ Rendered(ss_trading_rules, i)
          /\ LET index == rule_index(ss_trading_rules, i)
                 trading_rules == popped(ss_trading_rules, index)
             IN  /\ ss_trading_rules' = trading_rules
                 /\ store_rules' = save_trading_rules(trading_rules).stored
                 /\ alerts' = page_alerts(trading_rules, clock)
                 /\ last' = [op |-> "delete_rule", index |-> index]
    /\ UNCHANGED << USE_DATABASE, store_transactions, store_portfolio, ss_transactions,
                    ss_portfolio, clock, faults, market, result >>

\* datetime.now() moves on
time_passes ==
    /\ clock < MaxClock
    /\ clock' = clock + 1
    /\ UNCHANGED << USE_DATABASE, store_transactions, store_portfolio, ss_transactions,
                    ss_portfolio, faults, last, market, result,
                    ss_trading_rules, store_rules, alerts >>

\* a session that holds 10 shares of "A", no rule yet, every lookup answering
InitRules ==
    /\ USE_DATABASE \in BOOLEAN
    /\ store_transactions = << Transaction("A", "buy", 10, 100, 0) >>
    /\ store_portfolio = [s \in {"A"} |-> 10]
    /\ ss_transactions = store_transactions
    /\ ss_portfolio = store_portfolio
    /\ clock = 0
    /\ faults = 0
    /\ last = NoCall
    /\ market = [ price |-> [s \in Symbols |-> Ok(179)],
                  info |-> [s \in Symbols |-> InfoSnapshot(-6, 300, 100)] ]
    /\ result = NoResult
    /\ NoRules

NextRules == create_rule \/ toggle_rule \/ delete_rule \/ time_passes

SpecRules == InitRules /\ [][NextRules]_vars

----------------------------------------------------------------------------
(* Claims about the life of the rules *)

\* the parameters of a rule are those validate_rule accepts
ValidParameters(rule) ==
    /\ rule.symbol \in Symbols
    /\ CASE rule.type = "price_alert" -> rule.target_price > 0
         [] rule.type = "stop_loss" -> rule.stop_price > 0
         [] rule.type = "take_profit" -> rule.target_price > 0
         [] rule.type = "percentage_change" ->
              rule.percentage_threshold > 0 /\ rule.direction \in {"up", "down"}
         [] rule.type = "volume_alert" ->
              rule.volume_threshold > 0 /\ rule.comparison \in {"above", "below"}
         [] OTHER -> FALSE

AllValid(rules) == \A i \in 1..Len(rules) : ValidParameters(rules[i])

\* C12: every rule of the session and every persisted rule has parameters
\* that validate without error; a creation whose validation returned errors
\* leaves the rules of the session and the persisted rules as they were, and
\* only a creation without errors adds its rule.
C12_InvalidNeverAdmitted ==
    /\ AllValid(ss_trading_rules)
    /\ AllValid(store_rules)
    /\ (last.op = "create_rule" /\ last.errors # << >>) =>
          /\ ss_trading_rules = last.before_rules
          /\ store_rules = last.before_store
    /\ (last.op = "create_rule" /\ last.errors = << >>) =>
          /\ Len(ss_trading_rules) = Len(last.before_rules) + 1
          /\ SubSeq(ss_trading_rules, 1, Len(last.before_rules)) = last.before_rules

\* a creation refused while a rule is in the session and in the file
C12_Witness ==
    /\ last.op = "create_rule"
    /\ last.errors # << >>
    /\ Len(ss_trading_rules) = 1
    /\ Len(store_rules) = 1

\* C13: no two rules of the session have the same id, and no two persisted
\* rules have the same id.
C13_IdsUnique == UniqueIds(ss_trading_rules) /\ UniqueIds(store_rules)

\* the rule of row i but for its flag
SameButActive(rule, before) == [rule EXCEPT !.active = before.active] = before

----------------------------------------------------------------------------
(* Runs of the rules page over a changing market: every run fetches the     *)
(* quotes and the snapshots and evaluates the rules of the session.         *)

\* the rules a session can hold: rule i was created at reading i - 1 with
\* parameters that validate
RuleLists(n) ==
    { [i \in 1..n |->
          new_rule(f[i][1], f[i][2],
                   CHOOSE x \in {input[1] : input \in SidebarInputs(f[i][1])} : x > 0,
                   CHOOSE c \in {input[2] : input \in SidebarInputs(f[i][1])} : TRUE,
                   i - 1)] :
      f \in [1..n -> RuleTypes \X Symbols] }

\* both lookups of a symbol answer
Answering == << Ok(179), InfoSnapshot(-6, 300, 100) >>

\* what the two lookups of a symbol do in one run: <<quote, snapshot>>
LookupOutcomes ==
    { Answering,
      << None, InfoSnapshot(-6, 300, 100) >>,
      << Ok(179), InfoNone >>,
      << Raises, InfoSnapshot(-6, 300, 100) >>,
      << Ok(179), InfoRaises >> }

CycleMarkets ==
    { [ price |-> [s \in Symbols |-> m[s][1]], info |-> [s \in Symbols |-> m[s][2]] ] :
      m \in {n \in [Symbols -> LookupOutcomes] :
                 Cardinality({s \in Symbols : n[s] # Answering}) <= 1} }

FiredIds(collected) == {collected[k].rule_id : k \in 1..Len(collected)}

\* the rules are those of the file data/trading_rules.json
InitCycles ==
    /\ USE_DATABASE = FALSE
    /\ store_transactions = << Transaction("A", "buy", 10, 100, 0) >>
    /\ store_portfolio = [s \in {"A"} |-> 10]
    /\ ss_transactions = store_transactions
    /\ ss_portfolio = store_portfolio
    /\ clock = MaxRules
    /\ faults = 0
    /\ last = [op |-> "none", fired_before |-> {}]
    /\ market = [ price |-> [s \in Symbols |-> Answering[1]],
                  info |-> [s \in Symbols |-> Answering[2]] ]
    /\ result = NoResult
    /\ \E n \in 0..MaxRules : ss_trading_rules \in RuleLists(n)
    /\ store_rules = save_trading_rules_file(ss_trading_rules).stored
    /\ alerts = << >>

\* one run of the page with the quotes of the moment (lines 304-315)
evaluation_cycle ==
    /\ market' \in CycleMarkets
    /\ last' = [ op |-> "evaluation_cycle", fired_before |-> FiredIds(alerts),
                 before_rules |-> ss_trading_rules, before_store |-> store_rules ]
    /\ UNCHANGED << USE_DATABASE, store_transactions, store_portfolio, ss_transactions,
                    ss_portfolio, clock, faults, result, ss_trading_rules, store_rules >>
    /\ alerts' = page_alerts(ss_trading_rules, clock)'

NextCycles == evaluation_cycle

SpecCycles == InitCycles /\ [][NextCycles]_vars

----------------------------------------------------------------------------
(* Claims about the runs of the page *)

CycleDone == last.op = "evaluation_cycle"

RuleIndices == 1..Len(ss_trading_rules)

\* the quote lookup of the rule's symbol answers with a price
QuoteAvailable(rule) ==
    get_stock_price(rule.symbol).status = "ok" /\ get_stock_price(rule.symbol).value > 0

\* the quote lookup answers and the info lookup answers
DataAvailable(rule) ==
    QuoteAvailable(rule) /\ get_stock_info(rule.symbol).status = "ok"

\* the trigger condition of the rule holds on the data of its symbol
TriggerHolds(rule) ==
    LET price == get_stock_price(rule.symbol).value
        info == get_stock_info(rule.symbol)
    IN  CASE rule.type = "price_alert" ->
               \/ rule.alert_type = "above" /\ price >= rule.target_price
               \/ rule.alert_type = "below" /\ price <= rule.target_price
          [] rule.type = "stop_loss" -> price <= rule.stop_price
          [] rule.type = "take_profit" -> price >= rule.target_price
          [] rule.type = "percentage_change" ->
               \/ rule.direction = "up" /\ info.day_change_percent >= rule.percentage_threshold
               \/ rule.direction = "down"
                     /\ info.day_change_percent + rule.percentage_threshold <= 0
          [] rule.type = "volume_alert" ->
               \/ rule.comparison = "above" /\ info.avg_volume > 0
                     /\ info.volume >= rule.volume_threshold * info.avg_volume
               \/ rule.comparison = "below"
                     /\ (info.avg_volume = 0
                         \/ info.volume <= rule.volume_threshold * info.avg_volume)
          [] OTHER -> FALSE

\* the alerts of the run that carry the id of the rule
AlertsOf(rule) == SelectSeq(alerts, LAMBDA alert : alert.rule_id = rule.id)

\* the run left the rules of the session and the persisted rules as they were
RulesUntouched ==
    ss_trading_rules = last.before_rules /\ store_rules = last.before_store

\* C11: a run of the page changes no rule and removes none, and every
\* active rule whose trigger condition holds on the data of the run has an
\* alert made in this run, whether or not it had one in the run before.
C11_LevelTriggered ==
    CycleDone =>
        /\ RulesUntouched
        /\ \A i \in RuleIndices :
              LET rule == ss_trading_rules[i]
              IN  (rule.active /\ DataAvailable(rule) /\ TriggerHolds(rule)) =>
                     /\ Len(AlertsOf(rule)) = 1
                     /\ AlertsOf(rule)[1].type # "error"
                     /\ AlertsOf(rule)[1].timestamp = Datetime(clock)

\* the second of two runs in a row: a rule that had an alert in the first
\* has one again, and is still active
C11_Witness ==
    /\ CycleDone
    /\ \E i \in RuleIndices :
          /\ ss_trading_rules[i].active
          /\ ss_trading_rules[i].id \in last.fired_before
          /\ DataAvailable(ss_trading_rules[i])
          /\ TriggerHolds(ss_trading_rules[i])
          /\ Len(AlertsOf(ss_trading_rules[i])) = 1

\* the lookup that is made for the rule raises: the quote, or the snapshot
\* once the quote is there
LookupRaises(rule) ==
    \/ get_stock_price(rule.symbol).status = "raise"
    \/ QuoteAvailable(rule) /\ get_stock_info(rule.symbol).status = "raise"

Failing == {i \in RuleIndices : ss_trading_rules[i].active /\ LookupRaises(ss_trading_rules[i])}

\* the rules of the session without the failing ones
Remaining ==
    SelectSeq(ss_trading_rules, LAMBDA rule : ~(rule.active /\ LookupRaises(rule)))

\* C20: an active rule whose lookup raises has one alert of type error with
\* the rule's id, whose symbol and message name the rule's symbol; the run
\* goes on, and the alerts of the other rules are those of a run without
\* the failing rules.
C20_LookupFailureIsAnAlert ==
    CycleDone =>
        /\ \A i \in Failing :
              LET rule == ss_trading_rules[i]
              IN  /\ Len(AlertsOf(rule)) = 1
                  /\ AlertsOf(rule)[1].type = "error"
                  /\ AlertsOf(rule)[1].symbol = rule.symbol
                  /\ AlertsOf(rule)[1].message.symbol = rule.symbol
        /\ SelectSeq(alerts, LAMBDA alert :
                        \A i \in Failing : alert.rule_id # ss_trading_rules[i].id)
              = collect_alerts(Remaining, clock, << >>)

\* a rule whose quote lookup raises before a rule of the other symbol that
\* has its alert
C20_Witness ==
    /\ CycleDone
    /\ \E i, j \in RuleIndices :
          /\ i < j
          /\ i \in Failing
          /\ get_stock_price(ss_trading_rules[i].symbol).status = "raise"
          /\ j \notin Failing
          /\ Len(AlertsOf(ss_trading_rules[j])) = 1
          /\ AlertsOf(ss_trading_rules[j])[1].type # "error"

----------------------------------------------------------------------------
(* validate_rule as a function of the rule and of the info lookup: the      *)
(* lookup is drawn in the initial state, the action hands validate_rule a   *)
(* dict of one of the five types, with fields missing or out of range.      *)

\* the numbers a dict can carry besides the valid ones
BadNumbers == {-1, 0}

\* a word that is in none of the enumerations
Sideways == "sideways"

\* the field of the type that holds its price or threshold
number_field(rule_type) ==
    CASE rule_type \in {"price_alert", "take_profit"} -> "target_price"
      [] rule_type = "stop_loss" -> "stop_price"
      [] rule_type = "percentage_change" -> "percentage_threshold"
      [] rule_type = "volume_alert" -> "volume_threshold"

\* the field of the type that holds a word of an enumeration: alert_type is
\* read at trading_rules.py:84-103, direction at 137-152, comparison at 161-169
enum_field(rule_type) ==
    CASE rule_type = "price_alert" -> "alert_type"
      [] rule_type = "percentage_change" -> "direction"
      [] rule_type = "volume_alert" -> "comparison"
      [] OTHER -> "-"

\* the words check_trading_rules compares the field with
enum_values(rule_type) ==
    CASE rule_type \in {"price_alert", "volume_alert"} -> {"above", "below"}
      [] rule_type = "percentage_change" -> {"up", "down"}
      [] OTHER -> {}

\* the dicts the creators return for any number and any word
MadeDicts ==
    LET symbols == {"A", ""}
    IN  {create_price_alert(s, n, e, 0) :
            s \in symbols, n \in BadNumbers \cup RulePrices,
            e \in {"above", "below", Sideways}}
        \cup {create_stop_loss(s, n, 10, 0) : s \in symbols, n \in BadNumbers \cup RulePrices}
        \cup {create_take_profit(s, n, 10, 0) : s \in symbols, n \in BadNumbers \cup RulePrices}
        \cup {create_percentage_change_alert(s, n, e, 0) :
                s \in symbols, n \in BadNumbers \cup {PercentageThreshold},
                e \in {"up", "down", Sideways}}
        \cup {create_volume_alert(s, n, e, 0) :
                s \in symbols, n \in BadNumbers \cup {VolumeThreshold},
                e \in {"above", "below", Sideways}}

\* ... and the same dicts with the number, the word or both left out
RuleDicts ==
    UNION { { [k \in DOMAIN rule \ dropped |-> rule[k]] :
                dropped \in SUBSET ({number_field(rule.type), enum_field(rule.type)}
                                    \cap DOMAIN rule) } :
            rule \in MadeDicts }

InitValidate ==
    /\ USE_DATABASE = TRUE
    /\ store_transactions = << >>
    /\ store_portfolio = EmptyPortfolio
    /\ ss_transactions = << >>
    /\ ss_portfolio = EmptyPortfolio
    /\ clock = 0
    /\ faults = 0
    /\ last = NoCall
    /\ \E info \in {InfoSnapshot(0, 100, 100), InfoNone, InfoRaises} :
          market = [ price |-> [s \in Symbols |-> Ok(179)],
                     info |-> [s \in Symbols |-> IF s = "A" THEN info ELSE InfoNone] ]
    /\ result = NoResult
    /\ NoRules

validate ==
    /\ result = NoResult
    /\ \E rule \in RuleDicts :
          result' = [ op |-> "validate_rule", rule |-> rule, value |-> validate_rule(rule) ]
    /\ UNCHANGED << USE_DATABASE, store_transactions, store_portfolio, ss_transactions,
                    ss_portfolio, clock, faults, last, market,
                    ss_trading_rules, store_rules, alerts >>

NextValidate == validate

SpecValidate == InitValidate /\ [][NextValidate]_vars

----------------------------------------------------------------------------
(* Claims about validate_rule *)

ValidateDone == result.op = "validate_rule"

\* the price or threshold of the dict is missing, zero or negative
NumberUnusable(rule) ==
    \/ number_field(rule.type) \notin DOMAIN rule
    \/ rule[number_field(rule.type)] <= 0

\* the dict has a positive price or threshold and names a symbol that the
\* info lookup knows
NumberAndSymbolFine(rule) ==
    /\ ~NumberUnusable(rule)
    /\ rule.symbol # ""
    /\ get_stock_info(rule.symbol).status = "ok"

\* the dict is of a type with an enumeration and its word is not in it
EnumOutside(rule) ==
    /\ enum_values(rule.type) # {}
    /\ enum_field(rule.type) \in DOMAIN rule
    /\ rule[enum_field(rule.type)] \notin enum_values(rule.type)

\* C21: validate_rule returns errors for a dict of any of the five types
\* whose price or threshold is missing, zero or negative.
C21_NonPositiveRejected ==
    (ValidateDone /\ NumberUnusable(result.rule)) => result.value # << >>

\* a volume alert with volume_threshold = 0, a word of its enumeration and
\* a known symbol, refused
C21_Witness ==
    /\ ValidateDone
    /\ result.rule.type = "volume_alert"
    /\ "volume_threshold" \in DOMAIN result.rule /\ result.rule.volume_threshold = 0
    /\ ~EnumOutside(result.rule) /\ "comparison" \in DOMAIN result.rule
    /\ result.rule.symbol = "A" /\ get_stock_info("A").status = "ok"
    /\ result.value # << >>

\* C22: validate_rule returns errors for a dict whose alert_type, direction
\* or comparison is outside its enumeration, even with a positive number
\* and a known symbol.
C22_EnumRejected ==
    (ValidateDone /\ EnumOutside(result.rule) /\ NumberAndSymbolFine(result.rule)) =>
        result.value # << >>

----------------------------------------------------------------------------
(* Claims about add_transaction over a store whose operations can fail *)

\* C23: add_transaction returns False whenever a write it makes (the new
\* transaction, the updated holdings) fails, and True only when both were
\* persisted.
C23_WriteFailureSurfaced ==
    AddTransactionDone => (last.write_failed => ~last.ret)

\* the stored quantity of a symbol, 0 when it is not held
StoredQuantity(portfolio, symbol) == Get(portfolio, symbol, 0)

\* C27: a successful add_transaction for a symbol leaves the stored quantity
\* of every other symbol as it was, also when the read of the holdings
\* failed during the call.
C27_OtherHoldingsKept ==
    (AddTransactionDone /\ last.ret) =>
        \A s \in Symbols \ {upper(last.symbol)} :
            StoredQuantity(store_portfolio, s) = StoredQuantity(last.before_portfolio, s)

----------------------------------------------------------------------------
(* Claims about the realized gains over a growing ledger *)

\* realized_gains of the metrics of a ledger, the holdings being those of
\* the session
realized_gains_of(transactions) ==
    Get(calculate_portfolio_metrics(ss_portfolio, transactions), "realized_gains", Num(0))

\* the buys that can follow the ledger for a symbol it has sold
LaterBuys(transactions) ==
    { Transaction(transactions[i].symbol, "buy", quantity, price, Len(transactions) + 1) :
        i \in Sells(transactions), quantity \in Quantities, price \in Prices }

\* C24: a buy appended after the sells of its symbol leaves the realized
\* gains of the ledger, which are those of the sells, as they were.
C24_LaterBuyKeepsRealized ==
    MetricsDone =>
        \A buy \in LaterBuys(ss_transactions) :
            realized_gains_of(Append(ss_transactions, buy)) = Metric("realized_gains")

\* C30: for a ledger that is not empty, total_return = total_current_value
\* - total_invested + 2 * realized_gains; without a sell this is
\* total_current_value - total_invested.
C30_RealizedCountedTwice ==
    (MetricsDone /\ ss_transactions # << >>) =>
        /\ Metric("total_return") =
               RAdd(RSub(Metric("total_current_value"), Metric("total_invested")),
                    RMul(Num(2), Metric("realized_gains")))
        /\ Sells(ss_transactions) = {} =>
               Metric("total_return") =
                   RSub(Metric("total_current_value"), Metric("total_invested"))

\* buy 10 @ 100, sell 4 @ 120 and holdings worth 1300: realized gains 80
\* and a total return of 1300 - 1000 + 160
C30_Witness ==
    /\ MetricsDone
    /\ ss_transactions = << Transaction("A", "buy", 10, 100, 1),
                            Transaction("A", "sell", 4, 120, 2) >>
    /\ Metric("total_current_value") = Num(1300)
    /\ Metric("realized_gains") = Num(80)
    /\ Metric("total_return") = Num(460)

----------------------------------------------------------------------------
(* Rules switched off and on between the runs of the page: the rules are    *)
(* those of the file, all for the symbol of the sidebar, and each step is   *)
(* the button "Toggle" of a row or a run over new quotes.                   *)

InitInactive ==
    /\ USE_DATABASE = FALSE
    /\ store_transactions = << Transaction("A", "buy", 10, 100, 0) >>
    /\ store_portfolio = [s \in {"A"} |-> 10]
    /\ ss_transactions = store_transactions
    /\ ss_portfolio = store_portfolio
    /\ clock = MaxRules
    /\ faults = 0
    /\ last = [op |-> "none", fired_before |-> {}]
    /\ market = [ price |-> [s \in Symbols |-> Answering[1]],
                  info |-> [s \in Symbols |-> Answering[2]] ]
    /\ result = NoResult
    /\ \E n \in 0..MaxRules :
          ss_trading_rules \in
              {rules \in RuleLists(n) : \A i \in 1..n : rules[i].symbol \in SidebarSymbols}
    /\ store_rules = save_trading_rules_file(ss_trading_rules).stored
    /\ alerts = << >>

NextInactive == toggle_rule \/ evaluation_cycle

SpecInactive == InitInactive /\ [][NextInactive]_vars

----------------------------------------------------------------------------
(* Claims about inactive rules *)

\* C29: a rule whose active flag is False gets no alert from
\* check_trading_rules whatever the lookups would do, raising included, so
\* the alerts of a run all carry the id of an active rule; a rule toggled
\* back to active has its alert in the run of the toggle when its condition
\* holds.
C29_InactiveSilent ==
    /\ \A i \in RuleIndices :
          ~ss_trading_rules[i].active =>
              /\ check_trading_rules(ss_trading_rules[i], clock) = NoAlert
              /\ AlertsOf(ss_trading_rules[i]) = << >>
    /\ \A k \in 1..Len(alerts) :
          \E i \in RuleIndices :
              ss_trading_rules[i].active /\ ss_trading_rules[i].id = alerts[k].rule_id
    /\ \A i \in RuleIndices :
          LET rule == ss_trading_rules[i]
          IN  (last.op = "toggle_rule" /\ last.index = i /\ rule.active
                 /\ DataAvailable(rule) /\ TriggerHolds(rule)) =>
                  Len(AlertsOf(rule)) = 1

\* a row toggled twice in a row, off and on again, over lookups that
\* answer: the rule has its alert; and beside it a rule that is off while
\* its condition holds
C29_Witness ==
    /\ last.op = "toggle_rule"
    /\ last.two_ago # << >>
    /\ ss_trading_rules[last.index].active
    /\ ~last.before[last.index].active
    /\ DataAvailable(ss_trading_rules[last.index])
    /\ TriggerHolds(ss_trading_rules[last.index])
    /\ Len(AlertsOf(ss_trading_rules[last.index])) = 1
    /\ \E j \in RuleIndices :
          /\ ~ss_trading_rules[j].active
          /\ DataAvailable(ss_trading_rules[j])
          /\ TriggerHolds(ss_trading_rules[j])
          /\ AlertsOf(ss_trading_rules[j]) = << >>

----------------------------------------------------------------------------
(* A session from its start: the first page visited puts the key            *)
(* 'trading_rules' into st.session_state, the home page with [] and the     *)
(* rules page with the persisted rules; then rules are created.             *)

\* st.session_state has no key 'trading_rules' yet
NewSession == [op |-> "new_session"]

\* the rules persisted by earlier sessions: with a database none (no save of
\* a created rule succeeds there), with the file those the page saved
PersistedRules ==
    IF USE_DATABASE THEN { << >> }
    ELSE UNION { { save_trading_rules_file(rules).stored :
                     rules \in {r \in RuleLists(n) :
                                   \A i \in 1..n : r[i].symbol \in SidebarSymbols} } :
                 n \in 0..MaxRules }

InitSession ==
    /\ USE_DATABASE \in BOOLEAN
    /\ store_transactions = << Transaction("A", "buy", 10, 100, 0) >>
    /\ store_portfolio = [s \in {"A"} |-> 10]
    /\ ss_transactions = store_transactions
    /\ ss_portfolio = store_portfolio
    /\ clock = MaxRules
    /\ faults = 0
    /\ last = NewSession
    /\ market = [ price |-> [s \in Symbols |-> Answering[1]],
                  info |-> [s \in Symbols |-> Answering[2]] ]
    /\ result = NoResult
    /\ ss_trading_rules = << >>
    /\ store_rules \in PersistedRules
    /\ alerts = << >>

\* a run of app.py
visit_home ==
    /\ last.op \in {"new_session", "visit_trading_rules", "create_rule"}
    /\ ss_trading_rules' = IF last = NewSession THEN << >> ELSE ss_trading_rules
    /\ last' = [op |-> "visit_home"]
    /\ UNCHANGED << USE_DATABASE, store_transactions, store_portfolio, ss_transactions,
                    ss_portfolio, clock, faults, market, result, store_rules, alerts >>

\* a run of the rules page with no button pressed
visit_trading_rules ==
    /\ last.op \in {"new_session", "visit_home"}
    /\ LET trading_rules == IF last = NewSession THEN load_trading_rules
                            ELSE ss_trading_rules
       IN  /\ ss_trading_rules' = trading_rules
           /\ alerts' = page_alerts(trading_rules, clock)
    /\ last' = [op |-> "visit_trading_rules"]
    /\ UNCHANGED << USE_DATABASE, store_transactions, store_portfolio, ss_transactions,
                    ss_portfolio, clock, faults, market, result, store_rules >>

\* a button "Create ..." on the rules page, which the session has run
create_rule_in_session ==
    /\ last.op \in {"visit_trading_rules", "create_rule"}
    /\ create_rule

NextSession == visit_home \/ visit_trading_rules \/ create_rule_in_session

SpecSession == InitSession /\ [][NextSession]_vars

----------------------------------------------------------------------------
(* Claims about the persisted rules *)

\* a rule was created and saved by the last step
Created == last.op = "create_rule" /\ last.errors = << >>

\* C25: the save of the created rules succeeds and the load that follows
\* returns the rules of the session: same dicts, same order, created_at
\* back from its string.
C25_RulesRoundTrip ==
    Created => (last.saved /\ load_trading_rules = ss_trading_rules)

\* C28: after a rule is created and saved, whatever pages the session ran
\* before, the persisted rules hold every rule persisted before and the
\* new rule.
C28_PersistedRulesKept ==
    (Created /\ last.saved) =>
        /\ \A k \in 1..Len(last.before_store) :
              \E j \in 1..Len(store_rules) : store_rules[j] = last.before_store[k]
        /\ \E j \in 1..Len(store_rules) :
              parsed(store_rules[j]) = ss_trading_rules[Len(ss_trading_rules)]

----------------------------------------------------------------------------
(* clear_all_data, which the Database page calls (line 92).  The module    *)
(* data_persistence defines clear_all_data twice; the name is bound to the  *)
(* second definition (lines 385-402), which removes the files.  The files   *)
(* are the store only without a database.                                   *)

MaxCleared == 1   \* transactions, and rules, in the store before the clear

\* the function ends without a return statement: the caller's
\* `if success:` reads None
ReturnsNone == FALSE

InitClear ==
    /\ USE_DATABASE \in BOOLEAN
    /\ \E n \in 0..MaxCleared : store_transactions \in Ledgers(n)
    /\ store_portfolio = derive_holdings(store_transactions, EmptyPortfolio)
    /\ ss_transactions = load_transactions_of(store_transactions, TRUE)
    /\ ss_portfolio = load_portfolio(TRUE)
    /\ \E n \in 0..MaxCleared :
          store_rules \in
              IF USE_DATABASE THEN { << >> }
              ELSE { save_trading_rules_file(rules).stored :
                       rules \in {r \in RuleLists(n) :
                                     \A i \in 1..n : r[i].symbol \in SidebarSymbols} }
    /\ ss_trading_rules = load_trading_rules
    /\ clock = MaxCleared
    /\ faults = 0
    /\ last = NoCall
    /\ market = [ price |-> [s \in Symbols |-> Answering[1]],
                  info |-> [s \in Symbols |-> Answering[2]] ]
    /\ result = NoResult
    /\ alerts = << >>

\* clear_all_data as the page calls it
clear_all_data ==
    /\ last.op # "clear_all_data"
    /\ IF USE_DATABASE
       THEN UNCHANGED << store_transactions, store_portfolio, store_rules >>
       ELSE /\ store_transactions' = << >>
            /\ store_portfolio' = EmptyPortfolio
            /\ store_rules' = << >>
    /\ ss_transactions' = << >>
    /\ ss_portfolio' = EmptyPortfolio
    /\ ss_trading_rules' = << >>
    /\ last' = [op |-> "clear_all_data", ret |-> ReturnsNone]
    /\ UNCHANGED << USE_DATABASE, clock, faults, market, result, alerts >>

\* the keys of the session are filled from the store again
reload ==
    /\ last.op # "reload"
    /\ ss_transactions' = load_transactions_of(store_transactions, TRUE)
    /\ ss_portfolio' = load_portfolio(TRUE)
    /\ ss_trading_rules' = load_trading_rules
    /\ last' = [op |-> "reload", after |-> last.op]
    /\ UNCHANGED << USE_DATABASE, store_transactions, store_portfolio, store_rules,
                    clock, faults, market, result, alerts >>

NextClear == clear_all_data \/ reload

SpecClear == InitClear /\ [][NextClear]_vars

----------------------------------------------------------------------------
(* Claims about clear_all_data *)

StoreEmpty ==
    store_transactions = << >> /\ store_portfolio = EmptyPortfolio /\ store_rules = << >>

SessionEmpty ==
    ss_transactions = << >> /\ ss_portfolio = EmptyPortfolio /\ ss_trading_rules = << >>

\* C26: after clear_all_data the store in use holds no transactions, no
\* holdings and no rules, the session is empty and the call reported
\* success; a reload after it finds nothing.
C26_ClearEmptiesStore ==
    /\ last.op = "clear_all_data" => (StoreEmpty /\ SessionEmpty /\ last.ret)
    /\ (last.op = "reload" /\ last.after = "clear_all_data") => SessionEmpty

====
